---- MODULE Spec2Model ----
(***************************************************************************)
(* TensorBoard instance manager (tensorboard/manager.py).                  *)
(*                                                                         *)
(* The registry is the directory <tmp>/.tensorboard-info holding one file  *)
(* "pid-<pid>.info" per server process.  Server processes publish and      *)
(* retract their own file; coordinators run start(arguments, timeout):     *)
(* probe the registry, spawn a child, poll until it registers, exits or    *)
(* the deadline passes.  Every file-system call is one step, so the steps  *)
(* of different processes interleave freely.                               *)
(*                                                                         *)
(* Time is counted in ticks of a quarter of a second.  Computation takes   *)
(* no time: the clock advances only while every running start call         *)
(* sleeps, and a sleep lasts exactly one poll interval.                    *)
(***************************************************************************)
EXTENDS Integers, Sequences, FiniteSets, TLC

(***************************************************************************)
(* Bounds of the model.                                                    *)
(***************************************************************************)
MaxTime == 9            \* last clock value, in ticks
MaxTimeout == 3         \* largest timeout_seconds, in ticks
MaxPort == 2            \* servers listen on ports 1..MaxPort
MaxOut == 1             \* chunks a child writes to its output streams

(***************************************************************************)
(* Clock resolution: poll_interval_seconds = 0.5 is two ticks, so that a   *)
(* timeout need not be a multiple of it.  TensorboardInfo.start_time is in *)
(* whole seconds.                                                          *)
(***************************************************************************)
poll_interval_seconds == 2
TicksPerSecond == 2 * poll_interval_seconds
T0 == TicksPerSecond    \* the clock value in the initial state

Coordinators == {"c1", "c2"}        \* processes that may call start
Callers == {"c1"}                   \* the one that does, among other servers
Pids == {11, 12}                    \* pids the system hands out
\* Pids are alike: the file a dead process left behind is under the least.
StalePid == CHOOSE q \in Pids : \A r \in Pids : q <= r
FinderPids == {11, 12, 13}          \* files of the static registry
Ports == 1..MaxPort
FinderPorts == 1..(MaxPort + 1)
Timeouts == 0..MaxTimeout
WorkingDirectories == {"/w"}
ArgLists == {<<"--logdir", "a">>, <<"--logdir", "b">>}
ArgStrings == {"--logdir a", "--logdir b"}   \* commands not split into a list
ExitCodes == {0, -9}                \* Popen.returncode; negative for a signal
NoPid == 0

\* A JSON string found where a number is expected.  The comparisons of the
\* code are those of CPython 2, which orders every number before every
\* string: the value is above every port and every time of the model.
NotANumber == MaxTime + MaxPort + 2

----------------------------------------------------------------------------
(***************************************************************************)
(* Pure functions.                                                         *)
(***************************************************************************)

\* The namedtuple: a record with exactly these eight fields.
InfoFields ==
    {"version", "start_time", "pid", "port", "path_prefix", "logdir", "db",
     "cache_key"}

TensorboardInfo(version, start_time, pid, port, path_prefix, logdir, db, key) ==
    [version |-> version, start_time |-> start_time, pid |-> pid,
     port |-> port, path_prefix |-> path_prefix, logdir |-> logdir,
     db |-> db, cache_key |-> key]

\* json.dumps(..., sort_keys=True): the members in key order.  A text is
\* modelled as the sequence of its <<key, value>> members; the empty
\* sequence is the empty text.
SortedFields ==
    <<"cache_key", "db", "logdir", "path_prefix", "pid", "port", "start_time",
      "version">>

json_dumps(info) ==
    [i \in 1..Len(SortedFields) |-> <<SortedFields[i], info[SortedFields[i]]>>]

EmptyText == << >>

\* json.loads succeeds on a non-empty text whose keys are pairwise distinct.
json_loads_ok(contents) ==
    /\ contents # EmptyText
    /\ \A i, j \in DOMAIN contents : contents[i][1] = contents[j][1] => i = j

json_loads(contents) ==
    [k \in {contents[i][1] : i \in DOMAIN contents} |->
        contents[CHOOSE i \in DOMAIN contents : contents[i][1] = k][2]]

\* TensorboardInfo(**d) raises TypeError on a missing or an unexpected
\* keyword; the values are not inspected.
Decodes(contents) ==
    /\ json_loads_ok(contents)
    /\ DOMAIN json_loads(contents) = InfoFields

\* cache_key: base64 of the key-sorted compact JSON of the two inputs; both
\* encodings are injective, so the key is modelled by the sorted members.
cache_key(working_directory, arguments) ==
    << <<"arguments", arguments>>, <<"working_directory", working_directory>> >>

CacheKeys == {cache_key(w, a) : w \in WorkingDirectories, a \in ArgLists}

\* A variant of FirstOfSorted without the sort: the first candidate listed.
FirstUnsorted(candidates) == candidates[1]

\* sorted(candidates, key=port) is stable: the first element is the earliest
\* candidate among those of least port.
FirstOfSorted(candidates) ==
    candidates[CHOOSE i \in DOMAIN candidates :
        \A j \in DOMAIN candidates :
            \/ candidates[i].port < candidates[j].port
            \/ candidates[i].port = candidates[j].port /\ i <= j]

\* _find_matching_instance on the list get_all returned: a sequence holding
\* the candidate, or the empty sequence for None.
find_matching_instance(infos, key) ==
    LET candidates == SelectSeq(infos, LAMBDA info : info.cache_key = key)
    IN  IF candidates = << >> THEN << >> ELSE <<FirstOfSorted(candidates)>>

\* The terminal states of start.
StartReused(info) == [kind |-> "Reused", info |-> info]
StartLaunched(info) == [kind |-> "Launched", info |-> info]
StartFailed(exit_code, stdout, stderr) ==
    [kind |-> "Failed", exit_code |-> exit_code, stdout |-> stdout,
     stderr |-> stderr]
StartTimedOut(pid) == [kind |-> "TimedOut", pid |-> pid]
NoResult == [kind |-> "none"]

----------------------------------------------------------------------------
(***************************************************************************)
(* State.                                                                  *)
(***************************************************************************)
VARIABLES
    now,          \* time.time(), in ticks
    dirExists,    \* whether <tmp>/.tensorboard-info exists
    files,        \* the registry: pid of "pid-<pid>.info" -> text of the file
    proc,         \* pid -> the server process of that pid
    spc,          \* pid -> position of the server in its registry calls
    pc,           \* coordinator -> position inside start
    stage,        \* coordinator -> which get_all call is running (probe/poll)
    key,          \* coordinator -> cache_key(os.getcwd(), arguments)
    timeout_seconds, \* coordinator -> the timeout argument, in ticks
    start_time,   \* coordinator -> time.time() recorded before Popen
    end_time,     \* coordinator -> start_time + timeout_seconds
    wake,         \* coordinator -> the time its current sleep ends
    p,            \* coordinator -> pid of the Popen child (NoPid before)
    todo,         \* coordinator -> listed file names get_all has yet to read
    infos,        \* coordinator -> the results list of the running get_all
    result,       \* coordinator -> the value start returned
    out           \* coordinator -> contents of the two capture temp files

fsVars == <<dirExists, files>>
serverVars == <<proc, spc>>
callVars == <<key, timeout_seconds, start_time, end_time, p>>
vars ==
    <<now, dirExists, files, proc, spc, pc, stage, key, timeout_seconds,
      start_time, end_time, wake, p, todo, infos, result, out>>

FreeProc ==
    [status |-> "free", owner |-> "none", port |-> 0, key |-> << >>,
     start_time |-> 0, returncode |-> 0, wrote |-> FALSE]

\* A descriptor left behind by a process that died before the initial state.
StaleInfo(pid, port, k) == TensorboardInfo("v", 0, pid, port, "", "", "", k)

\* Every server listens on a port of its own.
PortOf(q) == (q % MaxPort) + 1

\* The calls and the processes before anything has run.
InitProcesses ==
    /\ now = T0
    /\ proc = [q \in Pids |-> FreeProc]
    /\ spc = [q \in Pids |-> "new"]
    /\ pc = [c \in Coordinators |-> "idle"]
    /\ stage = [c \in Coordinators |-> "none"]
    /\ key = [c \in Coordinators |-> << >>]
    /\ timeout_seconds = [c \in Coordinators |-> 0]
    /\ start_time = [c \in Coordinators |-> 0]
    /\ end_time = [c \in Coordinators |-> 0]
    /\ wake = [c \in Coordinators |-> 0]
    /\ p = [c \in Coordinators |-> NoPid]
    /\ todo = [c \in Coordinators |-> {}]
    /\ infos = [c \in Coordinators |-> << >>]
    /\ result = [c \in Coordinators |-> NoResult]
    /\ out = [c \in Coordinators |-> [stdout |-> << >>, stderr |-> << >>]]

\* The text with the value of the member `field` written as a JSON string.
Retyped(text, field) ==
    [i \in DOMAIN text |->
        IF text[i][1] = field THEN <<field, NotANumber>> ELSE text[i]]

\* What is found of a file whose text was to be `text`: all of it, or, its
\* writer having died inside write_info_file, nothing or a text that lacks
\* a member; or the text of a writer of another kind, with one member more
\* or with a string for a number.
Leftover(text, how) ==
    CASE how = "whole" -> text
      [] how = "empty" -> EmptyText
      [] how = "cut" -> SubSeq(text, 1, Len(text) - 1)
      [] how = "extra" -> Append(text, <<"zzz", 0>>)
      [] OTHER -> Retyped(text, how)

\* The registry holds the files that earlier processes left under the pids
\* of S, if the directory exists at all.
InitRegistry(S, ports, hows) ==
    /\ dirExists \in BOOLEAN
    /\ \E T \in SUBSET S :
         \E left \in [T -> ports \X CacheKeys \X hows] :
            /\ T # {} => dirExists
            /\ files = [f \in T |->
                  Leftover(json_dumps(StaleInfo(f, left[f][1], left[f][2])),
                           left[f][3])]

Init == InitProcesses /\ InitRegistry({StalePid}, Ports, {"whole"})

\* A variant of info_file_path with one file name for all processes.
info_file_path_shared(q) == StalePid

\* "pid-%d.info" % os.getpid(): the file of process q is the one named by q.
info_file_path(q) == q

----------------------------------------------------------------------------
(***************************************************************************)
(* start(arguments, timeout_seconds), as run by coordinator c.  The steps  *)
(* are its system calls; what start computes between two of them belongs   *)
(* to the step of the earlier one.                                         *)
(***************************************************************************)

\* A variant of LoopTest whose comparison is "<=": one more sleep begins
\* when the clock equals the deadline.
LoopTestLate(c, pid, deadline) ==
    IF now <= deadline
    THEN /\ pc' = [pc EXCEPT ![c] = "sleep"]
         /\ wake' = [wake EXCEPT ![c] = now + poll_interval_seconds]
         /\ UNCHANGED result
    ELSE /\ pc' = [pc EXCEPT ![c] = "done"]
         /\ result' = [result EXCEPT ![c] = StartTimedOut(pid)]
         /\ UNCHANGED wake

\* 211-212 and 227-228: the loop test at the time of the step; time.sleep
\* begins, or the else branch returns TimedOut.
LoopTest(c, pid, deadline) ==
    IF now < deadline
    THEN /\ pc' = [pc EXCEPT ![c] = "sleep"]
         /\ wake' = [wake EXCEPT ![c] = now + poll_interval_seconds]
         /\ UNCHANGED result
    ELSE /\ pc' = [pc EXCEPT ![c] = "done"]
         /\ result' = [result EXCEPT ![c] = StartTimedOut(pid)]
         /\ UNCHANGED wake

\* 153-159 and 192-194: get_all has returned to _find_matching_instance.
ProbeReturn(c, all) ==
    LET match == find_matching_instance(all, key[c])
    IN  /\ IF match # << >>
           THEN /\ result' = [result EXCEPT ![c] = StartReused(match[1])]
                /\ pc' = [pc EXCEPT ![c] = "done"]
           ELSE /\ pc' = [pc EXCEPT ![c] = "spawn"]
                /\ UNCHANGED result
        /\ UNCHANGED wake

\* A variant of Qualifies without the start-time guard.
QualifiesPidOnly(info, pid, started) == info.pid = pid

\* 225: the start-time guard; start_time is in seconds, the clock in ticks.
Qualifies(info, pid, started) ==
    info.pid = pid /\ info.start_time * TicksPerSecond >= started

\* 224-226: get_all has returned to the poll loop.
PollReturn(c, all) ==
    LET hits == SelectSeq(all,
                  LAMBDA info : Qualifies(info, p[c], start_time[c]))
    IN  IF hits # << >>
        THEN /\ result' = [result EXCEPT ![c] = StartLaunched(hits[1])]
             /\ pc' = [pc EXCEPT ![c] = "done"]
             /\ UNCHANGED wake
        ELSE LoopTest(c, p[c], end_time[c])

\* 150: get_all was called on its own; the caller has the list.
ListReturn(c, all) ==
    /\ result' = [result EXCEPT ![c] = [kind |-> "infos", infos |-> all]]
    /\ pc' = [pc EXCEPT ![c] = "done"]
    /\ UNCHANGED wake

\* 150: get_all returns the list `all` to the caller it was entered from.
GetAllReturn(c, all) ==
    /\ CASE stage[c] = "probe" -> ProbeReturn(c, all)
         [] stage[c] = "poll" -> PollReturn(c, all)
         [] OTHER -> ListReturn(c, all)
    /\ stage' = [stage EXCEPT ![c] = "none"]
    /\ todo' = [todo EXCEPT ![c] = {}]
    /\ infos' = [infos EXCEPT ![c] = << >>]

\* An exception leaves start.
Raise(c) ==
    /\ pc' = [pc EXCEPT ![c] = "raised"]
    /\ stage' = [stage EXCEPT ![c] = "none"]
    /\ todo' = [todo EXCEPT ![c] = {}]
    /\ infos' = [infos EXCEPT ![c] = << >>]
    /\ UNCHANGED <<result, wake>>

\* 134-136: _get_info_dir tests the directory; when it exists (nothing ever
\* removes it) os.listdir follows, and an empty listing ends get_all.
GetAllListdir(c) ==
    /\ pc[c] = "listdir"
    /\ IF ~dirExists
       THEN /\ pc' = [pc EXCEPT ![c] = "mkdir"]
            /\ UNCHANGED <<stage, todo, infos, result, wake>>
       ELSE IF DOMAIN files = {}
       THEN GetAllReturn(c, << >>)
       ELSE /\ pc' = [pc EXCEPT ![c] = "read"]
            /\ todo' = [todo EXCEPT ![c] = DOMAIN files]
            /\ infos' = [infos EXCEPT ![c] = << >>]
            /\ UNCHANGED <<stage, result, wake>>
    /\ UNCHANGED <<now, fsVars, serverVars, callVars, out>>

\* 56: os.mkdir raises OSError (EEXIST) when the directory appeared meanwhile.
GetAllMkdir(c) ==
    /\ pc[c] = "mkdir"
    /\ IF dirExists
       THEN /\ Raise(c)
            /\ UNCHANGED dirExists
       ELSE /\ pc' = [pc EXCEPT ![c] = "listdir"]
            /\ dirExists' = TRUE
            /\ UNCHANGED <<stage, todo, infos, result, wake>>
    /\ UNCHANGED <<now, files, serverVars, callVars, out>>

\* 137-149: open and read one listed file, decode it, append or warn.  open
\* is outside the try: a listed file that is gone raises IOError (ENOENT).
\* After the last listed file get_all returns.
GetAllRead(c, f) ==
    /\ pc[c] = "read"
    /\ f \in todo[c]
    /\ IF f \notin DOMAIN files
       THEN Raise(c)
       ELSE LET all == IF Decodes(files[f])
                       THEN Append(infos[c], json_loads(files[f]))
                       ELSE infos[c]
            IN  IF todo[c] = {f}
                THEN GetAllReturn(c, all)
                ELSE /\ todo' = [todo EXCEPT ![c] = @ \ {f}]
                     /\ infos' = [infos EXCEPT ![c] = all]
                     /\ UNCHANGED <<pc, stage, result, wake>>
    /\ UNCHANGED <<now, fsVars, serverVars, callVars, out>>

\* 121-134: a process calls get_all itself.
GetAllCall(c) ==
    /\ pc[c] = "idle"
    /\ stage' = [stage EXCEPT ![c] = "list"]
    /\ pc' = [pc EXCEPT ![c] = "listdir"]
    /\ UNCHANGED <<now, fsVars, serverVars, callVars, wake, todo, infos,
                   result, out>>

\* A variant of StartCallTypeError in which the registry directory is looked
\* up, and made, before the arguments are examined.
StartCallLateTypeError(c, working_directory, arguments) ==
    /\ pc[c] = "idle"
    /\ arguments \in ArgStrings
    /\ dirExists' = TRUE
    /\ pc' = [pc EXCEPT ![c] = "raised"]
    /\ UNCHANGED <<now, files, serverVars, stage, callVars, wake, todo, infos,
                   result, out>>

\* 192 and 109-114: start evaluates cache_key(os.getcwd(), arguments) first;
\* arguments that are a string, not a list or tuple, raise TypeError there.
StartCallTypeError(c, working_directory, arguments) ==
    /\ pc[c] = "idle"
    /\ arguments \in ArgStrings
    /\ pc' = [pc EXCEPT ![c] = "raised"]
    /\ UNCHANGED <<now, fsVars, serverVars, stage, callVars, wake, todo, infos,
                   result, out>>

\* 192: cache_key(os.getcwd(), arguments), then the call of get_all.  A call
\* is begun only while the clock leaves room for its whole timeout.
StartCall(c, working_directory, arguments, timeout) ==
    /\ pc[c] = "idle"
    /\ now + timeout + poll_interval_seconds <= MaxTime
    /\ key' = [key EXCEPT ![c] = cache_key(working_directory, arguments)]
    /\ timeout_seconds' = [timeout_seconds EXCEPT ![c] = timeout]
    /\ stage' = [stage EXCEPT ![c] = "probe"]
    /\ pc' = [pc EXCEPT ![c] = "listdir"]
    /\ UNCHANGED <<now, fsVars, serverVars, start_time, end_time, wake, p,
                   todo, infos, result, out>>

\* A variant of Spawn under a lock per cache key: no child is spawned for a
\* key while the child another start call spawned for it is running.
SpawnLocked(c, q, port) ==
    /\ pc[c] = "spawn"
    /\ proc[q].status = "free"
    /\ \A r \in Pids : ~(proc[r].status = "running" /\ proc[r].key = key[c])
    /\ out' = [out EXCEPT ![c] = [stdout |-> << >>, stderr |-> << >>]]
    /\ start_time' = [start_time EXCEPT ![c] = now]
    /\ end_time' = [end_time EXCEPT ![c] = now + timeout_seconds[c]]
    /\ p' = [p EXCEPT ![c] = q]
    /\ proc' = [proc EXCEPT ![q] =
                  [FreeProc EXCEPT !.status = "running", !.owner = c,
                                   !.port = port, !.key = key[c]]]
    /\ LoopTest(c, q, now + timeout_seconds[c])
    /\ UNCHANGED <<now, fsVars, spc, key, timeout_seconds, stage, todo, infos>>

\* 196-212: two empty capture files, start_time = time.time(), Popen, and
\* the first loop test.  The child gets a pid no live process holds; it
\* serves the coordinator's arguments in the coordinator's working directory
\* on a port of its choice.
Spawn(c, q, port) ==
    /\ pc[c] = "spawn"
    /\ proc[q].status = "free"
    /\ out' = [out EXCEPT ![c] = [stdout |-> << >>, stderr |-> << >>]]
    /\ start_time' = [start_time EXCEPT ![c] = now]
    /\ end_time' = [end_time EXCEPT ![c] = now + timeout_seconds[c]]
    /\ p' = [p EXCEPT ![c] = q]
    /\ proc' = [proc EXCEPT ![q] =
                  [FreeProc EXCEPT !.status = "running", !.owner = c,
                                   !.port = port, !.key = key[c]]]
    /\ LoopTest(c, q, now + timeout_seconds[c])
    /\ UNCHANGED <<now, fsVars, spc, key, timeout_seconds, stage, todo, infos>>

\* A variant of Poll that gives up at the deadline: a child found running
\* then is killed and TimedOut is returned at once.
PollTerminates(c) ==
    /\ pc[c] = "sleep"
    /\ now >= wake[c]
    /\ IF proc[p[c]].status = "dead"
       THEN /\ result' = [result EXCEPT ![c] =
                  StartFailed(proc[p[c]].returncode, out[c].stdout,
                              out[c].stderr)]
            /\ pc' = [pc EXCEPT ![c] = "done"]
            /\ UNCHANGED <<stage, proc>>
       ELSE IF now >= end_time[c]
       THEN /\ proc' = [proc EXCEPT ![p[c]].status = "dead",
                                    ![p[c]].returncode = -9]
            /\ result' = [result EXCEPT ![c] = StartTimedOut(p[c])]
            /\ pc' = [pc EXCEPT ![c] = "done"]
            /\ UNCHANGED stage
       ELSE /\ pc' = [pc EXCEPT ![c] = "listdir"]
            /\ stage' = [stage EXCEPT ![c] = "poll"]
            /\ UNCHANGED <<result, proc>>
    /\ UNCHANGED <<now, fsVars, spc, callVars, wake, todo, infos, out>>

\* A variant of Poll that scans the registry without looking at the child
\* first.
PollScansFirst(c) ==
    /\ pc[c] = "sleep"
    /\ now >= wake[c]
    /\ pc' = [pc EXCEPT ![c] = "listdir"]
    /\ stage' = [stage EXCEPT ![c] = "poll"]
    /\ UNCHANGED <<now, fsVars, serverVars, callVars, wake, todo, infos,
                   result, out>>

\* 213-224: the sleep is over; p.poll(), then Failed with the contents of
\* both capture files, or the call of get_all.
Poll(c) ==
    /\ pc[c] = "sleep"
    /\ now >= wake[c]
    /\ IF proc[p[c]].status = "dead"
       THEN /\ result' = [result EXCEPT ![c] =
                  StartFailed(proc[p[c]].returncode, out[c].stdout,
                              out[c].stderr)]
            /\ pc' = [pc EXCEPT ![c] = "done"]
            /\ UNCHANGED stage
       ELSE /\ pc' = [pc EXCEPT ![c] = "listdir"]
            /\ stage' = [stage EXCEPT ![c] = "poll"]
            /\ UNCHANGED result
    /\ UNCHANGED <<now, fsVars, serverVars, callVars, wake, todo, infos, out>>

----------------------------------------------------------------------------
(***************************************************************************)
(* Server processes.  A server is the child of a start call or was         *)
(* launched independently.  Its main calls write_info_file once, when the  *)
(* server is ready, and remove_info_file when it shuts down; it may die at *)
(* any point.                                                              *)
(***************************************************************************)

Running(q) == proc[q].status = "running"

\* An independently launched server takes a free pid, leaving one for every
\* start call that may still spawn.
OtherLaunch(q, working_directory, arguments, port) ==
    /\ proc[q].status = "free"
    /\ Cardinality({r \in Pids : proc[r].status = "free"})
         > Cardinality({c \in Callers : p[c] = NoPid})
    /\ proc' = [proc EXCEPT ![q] =
                  [FreeProc EXCEPT !.status = "running", !.owner = "other",
                                   !.port = port,
                                   !.key = cache_key(working_directory,
                                                     arguments)]]
    /\ UNCHANGED <<now, fsVars, spc, pc, stage, callVars, wake, todo, infos,
                   result, out>>

\* A variant of Truncate that opens the file for appending: what the file
\* holds stays.
OpenForAppend(f) ==
    /\ files' = [g \in DOMAIN files \cup {f} |->
                   IF g \in DOMAIN files THEN files[g] ELSE EmptyText]

\* open(path, "w") creates or truncates the file.
Truncate(f) ==
    /\ files' = [g \in DOMAIN files \cup {f} |->
                   IF g = f THEN EmptyText ELSE files[g]]

\* 71-72: the payload is built from the caller's TensorboardInfo, whose
\* start_time is int(time.time()); _get_info_dir tests the directory, and
\* open(path, "w") follows when it exists.
WriteInfoOpen(q) ==
    /\ Running(q) /\ spc[q] = "new"
    /\ proc' = [proc EXCEPT ![q].start_time = now \div TicksPerSecond]
    /\ IF dirExists
       THEN /\ Truncate(info_file_path(q))
            /\ spc' = [spc EXCEPT ![q] = "write"]
       ELSE /\ spc' = [spc EXCEPT ![q] = "write_mkdir"]
            /\ UNCHANGED <<files>>
    /\ UNCHANGED <<now, dirExists, pc, stage, callVars, wake, todo, infos,
                   result, out>>

\* 65-72 again: a server that has published calls write_info_file once
\* more, with a TensorboardInfo of the time of the call.
RewriteInfoOpen(q) ==
    /\ Running(q) /\ spc[q] = "registered"
    /\ proc' = [proc EXCEPT ![q].start_time = now \div TicksPerSecond,
                            ![q].wrote = TRUE]
    /\ IF dirExists
       THEN /\ Truncate(info_file_path(q))
            /\ spc' = [spc EXCEPT ![q] = "write"]
       ELSE /\ spc' = [spc EXCEPT ![q] = "write_mkdir"]
            /\ UNCHANGED <<files>>
    /\ UNCHANGED <<now, dirExists, pc, stage, callVars, wake, todo, infos,
                   result, out>>

\* 56 inside write_info_file or remove_info_file: os.mkdir; the uncaught
\* OSError ends the call.
ServerMkdir(q) ==
    /\ Running(q) /\ spc[q] \in {"write_mkdir", "remove_mkdir"}
    /\ IF dirExists
       THEN /\ spc' = [spc EXCEPT ![q] = "raised"]
            /\ UNCHANGED dirExists
       ELSE /\ spc' = [spc EXCEPT ![q] =
                  IF spc[q] = "write_mkdir" THEN "open" ELSE "unlink"]
            /\ dirExists' = TRUE
    /\ UNCHANGED <<now, files, proc, pc, stage, callVars, wake, todo, infos,
                   result, out>>

\* 72 after the directory had to be made: open(path, "w").
WriteInfoOpenAfterMkdir(q) ==
    /\ Running(q) /\ spc[q] = "open"
    /\ Truncate(info_file_path(q))
    /\ spc' = [spc EXCEPT ![q] = "write"]
    /\ UNCHANGED <<now, dirExists, proc, pc, stage, callVars, wake, todo,
                   infos, result, out>>

\* The TensorboardInfo server q passes to write_info_file.
ServerInfo(q) ==
    TensorboardInfo("v", proc[q].start_time, q, proc[q].port, "", "", "",
                    proc[q].key)

\* The text write_info_file writes for server q.
Payload(q) == json_dumps(ServerInfo(q))

\* 73: the payload reaches the file when the with block closes it.
WriteInfoFlush(q) ==
    /\ Running(q) /\ spc[q] = "write"
    /\ info_file_path(q) \in DOMAIN files
    /\ files' = [files EXCEPT ![info_file_path(q)] = @ \o Payload(q)]
    /\ spc' = [spc EXCEPT ![q] = "registered"]
    /\ UNCHANGED <<now, dirExists, proc, pc, stage, callVars, wake, todo,
                   infos, result, out>>

\* 82-87: os.unlink of the caller's file; ENOENT is swallowed.
Unlink(f) ==
    /\ files' = [g \in DOMAIN files \ {f} |-> files[g]]

\* 81-82: remove_info_file; _get_info_dir tests the directory first.  A
\* server that has not published yet may publish later.
RemoveInfoFile(q) ==
    /\ Running(q) /\ spc[q] \in {"new", "registered", "removed"}
    /\ IF dirExists
       THEN /\ Unlink(info_file_path(q))
            /\ spc' = [spc EXCEPT ![q] = IF @ = "new" THEN "new" ELSE "removed"]
       ELSE /\ spc' = [spc EXCEPT ![q] = "remove_mkdir"]
            /\ UNCHANGED <<files>>
    /\ UNCHANGED <<now, dirExists, proc, pc, stage, callVars, wake, todo,
                   infos, result, out>>

\* 82 after the directory had to be made.
RemoveInfoUnlinkAfterMkdir(q) ==
    /\ Running(q) /\ spc[q] = "unlink"
    /\ Unlink(info_file_path(q))
    /\ spc' = [spc EXCEPT ![q] = "new"]
    /\ UNCHANGED <<now, dirExists, proc, pc, stage, callVars, wake, todo,
                   infos, result, out>>

\* The child of a running start call writes a chunk to the capture file it
\* inherited as stdout or stderr.
ChildPrint(q, stream) ==
    /\ Running(q)
    /\ proc[q].owner \in Coordinators
    /\ LET c == proc[q].owner
       IN  /\ pc[c] \notin {"done", "raised"}
           /\ Len(out[c].stdout) + Len(out[c].stderr) < MaxOut
           /\ out' = [out EXCEPT ![c][stream] = Append(@, stream)]
    /\ UNCHANGED <<now, fsVars, serverVars, pc, stage, callVars, wake, todo,
                   infos, result>>

\* A server ends at any point, cleanly or not; what it left in the registry
\* stays there.  Only a start call looks at the return code, and only at
\* that of its own child.
ServerExit(q, returncode) ==
    /\ Running(q)
    /\ returncode # 0 => proc[q].owner \in Coordinators
    /\ proc' = [proc EXCEPT ![q] =
                  [FreeProc EXCEPT !.status = "dead", !.owner = proc[q].owner,
                                   !.returncode = returncode,
                                   !.wrote = /\ proc[q].owner \in Coordinators
                                             /\ spc[q] \in {"registered",
                                                            "removed"}]]
    /\ spc' = [spc EXCEPT ![q] = "new"]
    /\ UNCHANGED <<now, fsVars, pc, stage, callVars, wake, todo, infos, result,
                   out>>

\* The clock advances while no start call is computing: each is idle, has
\* ended, or is inside a sleep that is not over.
Tick ==
    /\ now < MaxTime
    /\ \A c \in Coordinators :
          \/ pc[c] \in {"idle", "done", "raised"}
          \/ pc[c] = "sleep" /\ now < wake[c]
    /\ now' = now + 1
    /\ UNCHANGED <<fsVars, serverVars, pc, stage, callVars, wake, todo, infos,
                   result, out>>

----------------------------------------------------------------------------
\* A step of a start call whose timeout_seconds is drawn from T.
CallStep(c, T) ==
    \/ \E w \in WorkingDirectories, a \in ArgLists, t \in T :
          StartCall(c, w, a, t)
    \/ GetAllListdir(c)
    \/ GetAllMkdir(c)
    \/ \E f \in todo[c] : GetAllRead(c, f)
    \/ \E q \in Pids : Spawn(c, q, PortOf(q))
    \/ Poll(c)

ServerStep(q) ==
    \/ WriteInfoOpen(q)
    \/ ServerMkdir(q)
    \/ WriteInfoOpenAfterMkdir(q)
    \/ WriteInfoFlush(q)
    \/ RemoveInfoFile(q)
    \/ RemoveInfoUnlinkAfterMkdir(q)
    \/ \E stream \in {"stdout", "stderr"} : ChildPrint(q, stream)
    \/ \E returncode \in ExitCodes : ServerExit(q, returncode)

\* The system is followed until every start call has ended.
Pending(C) == \E c \in C : pc[c] \notin {"done", "raised"}

\* One start call amid independently launched servers.
Next ==
    \/ \E c \in Callers : CallStep(c, Timeouts)
    \/ Pending(Callers) /\ \E q \in Pids : ServerStep(q)
    \/ Pending(Callers) /\ \E q \in Pids, w \in WorkingDirectories,
                              a \in ArgLists :
          OtherLaunch(q, w, a, PortOf(q))
    \/ Pending(Callers) /\ Tick

Spec == Init /\ [][Next]_vars

\* Two concurrent start calls and their children over an empty registry.
InitRace == InitProcesses /\ InitRegistry({}, Ports, {"whole"})

ChildStep(q) ==
    \/ WriteInfoOpen(q)
    \/ WriteInfoFlush(q)
    \/ \E returncode \in ExitCodes : ServerExit(q, returncode)

NextRace ==
    \/ \E c \in Coordinators : CallStep(c, {MaxTimeout - 1})
    \/ Pending(Coordinators) /\ \E q \in Pids : ChildStep(q)
    \/ Pending(Coordinators) /\ Tick

SpecRace == InitRace /\ [][NextRace]_vars

\* _find_matching_instance over a registry nobody writes: any files left by
\* earlier processes, read in any order.
InitFinder == InitProcesses /\ InitRegistry(FinderPids, FinderPorts, {"whole", "empty", "cut"})

NextFinder ==
    \E c \in Callers :
        \/ \E w \in WorkingDirectories, a \in ArgLists :
              StartCall(c, w, a, 0)
        \/ GetAllListdir(c)
        \/ GetAllMkdir(c)
        \/ \E f \in todo[c] : GetAllRead(c, f)

SpecFinder == InitFinder /\ [][NextFinder]_vars

\* start called with arguments of either kind over a registry nobody writes.
NextUsage ==
    \/ NextFinder
    \/ \E c \in Callers, w \in WorkingDirectories, a \in ArgStrings :
          StartCallTypeError(c, w, a)

SpecUsage == InitFinder /\ [][NextUsage]_vars

\* get_all and the probe of start over a registry nobody writes, whose
\* files may be damaged or carry a string where a number belongs.
InitScan ==
    /\ InitProcesses
    /\ InitRegistry(Pids, FinderPorts,
                    {"whole", "empty", "cut", "extra", "port", "start_time"})

NextScan ==
    \E c \in Callers :
        \/ GetAllCall(c)
        \/ \E w \in WorkingDirectories, a \in ArgLists :
              StartCall(c, w, a, 0)
        \/ GetAllListdir(c)
        \/ GetAllMkdir(c)
        \/ \E f \in todo[c] : GetAllRead(c, f)

SpecScan == InitScan /\ [][NextScan]_vars

\* Servers publishing, publishing again and retracting, and one call of
\* get_all during which no other process moves.
InitRoundTrip ==
    /\ InitProcesses
    /\ InitRegistry(Pids, Ports, {"whole", "empty", "cut"})

RegistryStep(q) ==
    \/ WriteInfoOpen(q)
    \/ RewriteInfoOpen(q)
    \/ ServerMkdir(q)
    \/ WriteInfoOpenAfterMkdir(q)
    \/ WriteInfoFlush(q)
    \/ RemoveInfoFile(q)
    \/ RemoveInfoUnlinkAfterMkdir(q)
    \/ ServerExit(q, 0)

NextRoundTrip ==
    \/ \E c \in Callers :
          \/ GetAllCall(c)
          \/ GetAllListdir(c)
          \/ GetAllMkdir(c)
          \/ \E f \in todo[c] : GetAllRead(c, f)
    \/ /\ \A c \in Callers : pc[c] = "idle"
       /\ \/ \E q \in Pids : RegistryStep(q)
          \/ \E q \in Pids, w \in WorkingDirectories, a \in ArgLists :
                OtherLaunch(q, w, a, PortOf(q))
          \/ Tick

SpecRoundTrip == InitRoundTrip /\ [][NextRoundTrip]_vars

\* One start call and its child, the call made at any quarter of a second:
\* time.time() of line 198 keeps the fraction, the child's start_time does
\* not.
InitFresh ==
    /\ now \in 1..T0
    /\ proc = [q \in Pids |-> FreeProc]
    /\ spc = [q \in Pids |-> "new"]
    /\ pc = [c \in Coordinators |-> "idle"]
    /\ stage = [c \in Coordinators |-> "none"]
    /\ key = [c \in Coordinators |-> << >>]
    /\ timeout_seconds = [c \in Coordinators |-> 0]
    /\ start_time = [c \in Coordinators |-> 0]
    /\ end_time = [c \in Coordinators |-> 0]
    /\ wake = [c \in Coordinators |-> 0]
    /\ p = [c \in Coordinators |-> NoPid]
    /\ todo = [c \in Coordinators |-> {}]
    /\ infos = [c \in Coordinators |-> << >>]
    /\ result = [c \in Coordinators |-> NoResult]
    /\ out = [c \in Coordinators |-> [stdout |-> << >>, stderr |-> << >>]]
    /\ InitRegistry({StalePid}, Ports, {"whole"})

NextFresh ==
    \/ \E c \in Callers : CallStep(c, {MaxTimeout})
    \/ Pending(Callers) /\ \E q \in Pids : ChildStep(q)
    \/ Pending(Callers) /\ Tick

SpecFresh == InitFresh /\ [][NextFresh]_vars

----------------------------------------------------------------------------
(***************************************************************************)
(* Properties.                                                             *)
(***************************************************************************)

Ended(c) == pc[c] \in {"done", "raised"}

\* The probe has read a valid descriptor with the call's cache key.
MatchRead(c) ==
    \E i \in DOMAIN infos[c] : infos[c][i].cache_key = key[c]

\* C1: reuse without spawning.  When the probe of a start call has read from
\* the registry a valid descriptor whose cache key is that of the call, the
\* step that ends the probe's scan returns Reused carrying a descriptor of
\* that key, and the call has spawned no child.
C1_ReuseWithoutSpawn ==
    [][\A c \in Coordinators :
          (/\ stage[c] = "probe" /\ pc[c] = "read"
           /\ MatchRead(c)
           /\ pc'[c] # "read")
          => /\ pc'[c] = "done"
             /\ result'[c].kind = "Reused"
             /\ result'[c].info.cache_key = key[c]
             /\ p'[c] = NoPid]_vars

\* C2: exactly one terminal state.  No start call ends abnormally, and a
\* call has a result exactly when it has ended, the result being one of
\* Reused, Launched, Failed, TimedOut.
C2_ExactlyOneTerminalState ==
    \A c \in Coordinators :
        /\ pc[c] # "raised"
        /\ pc[c] = "done"
             <=> result[c].kind \in {"Reused", "Launched", "Failed", "TimedOut"}
        /\ pc[c] # "done" => result[c] = NoResult

\* The child of c is running and its descriptor, with a start time not
\* before the spawn, is in the registry.
ChildRegistered(c) ==
    /\ p[c] # NoPid
    /\ Running(p[c]) /\ spc[p[c]] = "registered"
    /\ info_file_path(p[c]) \in DOMAIN files
    /\ files[info_file_path(p[c])] = Payload(p[c])
    /\ Qualifies(json_loads(Payload(p[c])), p[c], start_time[c])

\* C3: scenario A.  When a start call ends before its deadline while its
\* child is running and has its descriptor, carrying the child's pid and a
\* start time not before the spawn, in the registry, the call returns
\* Launched with that descriptor.
C3_ScenarioLaunched ==
    [][\A c \in Coordinators :
          (/\ ~Ended(c) /\ pc'[c] \in {"done", "raised"}
           /\ ChildRegistered(c)
           /\ now < end_time[c])
          => result'[c] = StartLaunched(json_loads(Payload(p[c])))]_vars

\* C4: scenario B.  When a start call ends before its deadline after its
\* child exited without having written a descriptor, the call returns
\* Failed with the child's exit code and all the captured output, not
\* Launched and not TimedOut.
C4_ScenarioFailed ==
    [][\A c \in Coordinators :
          (/\ ~Ended(c) /\ pc'[c] \in {"done", "raised"}
           /\ p[c] # NoPid
           /\ proc[p[c]].status = "dead" /\ ~proc[p[c]].wrote
           /\ now < end_time[c])
          => result'[c] = StartFailed(proc[p[c]].returncode, out[c].stdout,
                                      out[c].stderr)]_vars

\* C5: scenario C.  When a start call ends while its child is running and
\* has never registered a descriptor, the call returns TimedOut with the
\* pid of that child; and TimedOut carries the child's pid, always.
C5_ScenarioTimedOut ==
    [][\A c \in Coordinators :
          /\ (/\ ~Ended(c) /\ pc'[c] \in {"done", "raised"}
              /\ p[c] # NoPid
              /\ Running(p[c]) /\ spc[p[c]] \notin {"registered", "removed"})
             => result'[c] = StartTimedOut(p[c])
          /\ result'[c].kind = "TimedOut"
             => p'[c] # NoPid /\ result'[c].pid = p'[c]]_vars

\* C6: the start-time guard.  A descriptor returned in Launched has the pid
\* of the spawned child and a start time not before the recorded spawn
\* time; it is never a descriptor that was in the registry before the
\* spawn.
C6_StartTimeGuard ==
    \A c \in Coordinators :
        result[c].kind = "Launched"
        => /\ p[c] # NoPid
           /\ result[c].info.pid = p[c]
           /\ result[c].info.start_time * TicksPerSecond >= start_time[c]
           /\ result[c].info # StaleInfo(p[c], result[c].info.port,
                                         result[c].info.cache_key)

\* A call with a positive timeout timed out although the descriptor an
\* earlier process left under the pid of its child stayed in the registry
\* throughout: every poll read it and passed it over.
C6_StaleDescriptorPassedOver ==
    \E c \in Coordinators :
        /\ pc[c] = "done" /\ result[c].kind = "TimedOut"
        /\ timeout_seconds[c] > 0
        /\ p[c] = StalePid /\ Running(p[c]) /\ spc[p[c]] = "new"
        /\ info_file_path(p[c]) \in DOMAIN files
        /\ Decodes(files[info_file_path(p[c])])
        /\ json_loads(files[info_file_path(p[c])]).pid = p[c]
        /\ json_loads(files[info_file_path(p[c])]).start_time * TicksPerSecond
             < start_time[c]

\* The valid descriptors in the registry that carry the key k.
Matching(k) ==
    {json_loads(files[f]) :
        f \in {g \in DOMAIN files :
                 Decodes(files[g]) /\ json_loads(files[g]).cache_key = k}}

C8_BoundedWaiting ==
    \A c \in Coordinators :
        (p[c] # NoPid /\ ~Ended(c))
        => /\ now <= end_time[c] + poll_interval_seconds
           /\ pc[c] = "sleep" => wake[c] - poll_interval_seconds < end_time[c]

\* A call returned TimedOut after its deadline, from a sleep that began
\* before it.
C8_ReturnedInsideTheSlack ==
    \E c \in Coordinators :
        /\ pc[c] = "done" /\ result[c].kind = "TimedOut"
        /\ wake[c] > end_time[c]
        /\ now = wake[c]
        /\ now <= end_time[c] + poll_interval_seconds

\* C9: the duplicate-launch race.  Nothing orders two start calls: a call
\* whose probe found no match can spawn its child whatever the other calls
\* have done, be it that the child of another call for the same cache key
\* is already running.
C9_NothingExcludesSecondSpawn ==
    \A c \in Coordinators :
        pc[c] = "spawn" => \E q \in Pids : ENABLED Spawn(c, q, PortOf(q))

\* Two start calls for one cache key have each spawned a child, and both
\* children are running.
C9_TwoChildrenOneKey ==
    \E c, d \in Coordinators :
        /\ c # d
        /\ key[c] = key[d]
        /\ p[c] # NoPid /\ p[d] # NoPid /\ p[c] # p[d]
        /\ Running(p[c]) /\ Running(p[d])
        /\ proc[p[c]].key = proc[p[d]].key

\* The file f is created, removed or rewritten by the step.
FileChanged(f) ==
    \/ (f \in DOMAIN files) # (f \in DOMAIN files')
    \/ f \in DOMAIN files /\ f \in DOMAIN files' /\ files'[f] # files[f]

\* C10: frame.  A step that changes a file of the registry changes the file
\* of one running server and no other file; it is a step of that server:
\* no start call and no other process moves in it.
C10_OnlyOwnFile ==
    [][\A f \in (DOMAIN files) \cup (DOMAIN files') :
          FileChanged(f)
          => /\ f \in Pids /\ Running(f)
             /\ spc[f] \in {"new", "open", "write", "registered", "removed",
                            "unlink"}
             /\ \A g \in ((DOMAIN files) \cup (DOMAIN files')) \ {f} :
                   ~FileChanged(g)
             /\ \A q \in Pids \ {f} : spc'[q] = spc[q] /\ proc'[q] = proc[q]
             /\ UNCHANGED <<pc, stage, callVars, wake, todo, infos, result,
                            out>>]_vars

\* A server published its descriptor next to the file of another process,
\* which is as it was, while a start call was reading the registry.
C10_PublishedBesideAnother ==
    \E q \in Pids, c \in Coordinators :
        /\ q # StalePid
        /\ Running(q) /\ spc[q] = "registered"
        /\ files[info_file_path(q)] = Payload(q)
        /\ StalePid \in DOMAIN files
        /\ Decodes(files[StalePid])
        /\ json_loads(files[StalePid]).start_time = 0
        /\ pc[c] = "read"

\* A descriptor as the data model has it: start time, pid and port are
\* integers.
WellTyped(info) ==
    /\ info.start_time # NotANumber
    /\ info.pid # NotANumber
    /\ info.port # NotANumber

\* A well-formed descriptor file: it parses, has the eight fields and no
\* other, and every field has its type.
WellFormed(contents) ==
    /\ json_loads_ok(contents)
    /\ DOMAIN json_loads(contents) = InfoFields
    /\ WellTyped(json_loads(contents))

WellFormedFiles == {f \in DOMAIN files : WellFormed(files[f])}

\* C11: corrupt-entry tolerance.  Over a registry nobody writes that mixes
\* well-formed files with files of invalid contents, get_all does not
\* raise, and the list it returns holds the descriptor of every well-formed
\* file, once, and nothing else.
C11_CorruptEntryTolerance ==
    \A c \in Coordinators :
        /\ pc[c] # "raised"
        /\ result[c].kind = "infos"
           => /\ Len(result[c].infos) = Cardinality(WellFormedFiles)
              /\ {result[c].infos[i] : i \in DOMAIN result[c].infos}
                   = {json_loads(files[f]) : f \in WellFormedFiles}

\* C12: invalid descriptors are never surfaced.  Every descriptor in the
\* list get_all returns, and every descriptor returned in Reused or
\* Launched, has the eight fields, each of its type.
C12_InvalidNeverSurfaced ==
    \A c \in Coordinators :
        /\ result[c].kind = "infos"
           => \A i \in DOMAIN result[c].infos :
                 /\ DOMAIN result[c].infos[i] = InfoFields
                 /\ WellTyped(result[c].infos[i])
        /\ result[c].kind \in {"Reused", "Launched"}
           => /\ DOMAIN result[c].info = InfoFields
              /\ WellTyped(result[c].info)

\* C13: reads tolerate concurrent writers.  Whatever other processes write
\* or remove while get_all scans, the read of a listed file does not raise:
\* it yields the descriptor of the file when the file is there and decodes,
\* and goes on to the next file otherwise.
C13_ReadsTolerateWriters ==
    [][\A c \in Coordinators : \A f \in todo[c] :
          GetAllRead(c, f)
          => /\ pc'[c] # "raised"
             /\ (f \in DOMAIN files /\ Decodes(files[f]) /\ pc'[c] = "read")
                => infos'[c] = Append(infos[c], json_loads(files[f]))]_vars

\* C14: creating the registry directory tolerates a race.  The first
\* registry access of a process, be it get_all, write_info_file or
\* remove_info_file, does not fail when another process created the
\* directory between the existence check and the creation step.
C14_MkdirRaceTolerant ==
    [][/\ \A c \in Coordinators :
             (pc[c] = "mkdir" /\ dirExists) => pc'[c] # "raised"
       /\ \A q \in Pids :
             (spc[q] \in {"write_mkdir", "remove_mkdir"} /\ dirExists)
             => spc'[q] # "raised"]_vars

\* C15: descriptors are written atomically.  A get_all that reads the file
\* of a process which is inside write_info_file finds a complete descriptor:
\* the one the file held before or the new one, never an empty or a partial
\* text.
C15_AtomicWrite ==
    [][\A c \in Coordinators : \A f \in todo[c] :
          (/\ GetAllRead(c, f)
           /\ f \in DOMAIN files
           /\ f \in Pids /\ Running(f) /\ spc[f] = "write")
          => Decodes(files[f])]_vars

\* The entries of the list get_all returned to c that carry the pid q.
EntriesOf(c, q) ==
    {i \in DOMAIN result[c].infos : result[c].infos[i].pid = q}

\* C16: round trip with overwrite.  When get_all runs with no registry step
\* in between after server q completed write_info_file(d), the list holds
\* exactly one entry of q's file and that entry equals d field for field;
\* what the file held before is not returned.
C16_RoundTrip ==
    \A c \in Coordinators :
        result[c].kind = "infos"
        => \A q \in Pids :
              (Running(q) /\ spc[q] = "registered")
              => /\ Cardinality(EntriesOf(c, q)) = 1
                 /\ \A i \in EntriesOf(c, q) :
                       result[c].infos[i] = ServerInfo(q)

\* get_all returned the descriptor of a server that wrote it over the one
\* it had published before.
C16_ReadBackAfterOverwrite ==
    \E c \in Coordinators, q \in Pids :
        /\ result[c].kind = "infos"
        /\ Running(q) /\ spc[q] = "registered" /\ proc[q].wrote
        /\ \E i \in DOMAIN result[c].infos :
              result[c].infos[i] = ServerInfo(q)

\* C17: retraction is idempotent.  remove_info_file raises no error; called
\* while the file of the process is absent it leaves the files of the
\* registry as they are; and when it has completed the file of the process
\* is absent, so that no scan returns an entry from it.
C17_RetractionIdempotent ==
    [][\A q \in Pids :
          /\ spc[q] = "remove_mkdir" => spc'[q] # "raised"
          /\ (RemoveInfoFile(q) /\ info_file_path(q) \notin DOMAIN files)
             => files' = files
          /\ ((RemoveInfoFile(q) /\ dirExists) \/ RemoveInfoUnlinkAfterMkdir(q))
             => info_file_path(q) \notin DOMAIN files']_vars

\* C18: invalid cache-key input fails first.  A start call raises out of
\* its first step only for arguments that are not a sequence, and that step
\* does nothing else: the registry directory and its files are as they
\* were, no process is spawned, no capture file is written and no terminal
\* state is returned.
C18_UsageErrorBeforeIO ==
    [][\A c \in Coordinators :
          (pc[c] = "idle" /\ pc'[c] = "raised")
          => /\ UNCHANGED <<dirExists, files, proc, spc, p, out, result>>
             /\ result[c] = NoResult /\ p[c] = NoPid
             /\ stage'[c] = "none" /\ todo'[c] = {}]_vars

\* A call was refused for its arguments while the registry directory did
\* not exist, and the directory still does not exist.
C18_RefusedWithoutRegistry ==
    \E c \in Coordinators :
        /\ pc[c] = "raised"
        /\ ~dirExists
        /\ p[c] = NoPid /\ result[c] = NoResult

\* C19: the coordinator never terminates the child.  A step in which a
\* start call moves leaves every running process running: a process stops
\* running only in a step of its own, and the child that was running when
\* TimedOut was returned is running after the return.
C19_CoordinatorNeverKills ==
    [][\A c \in Coordinators :
          pc'[c] # pc[c]
          => /\ \A q \in Pids : Running(q) => proc'[q] = proc[q]
             /\ (result'[c].kind = "TimedOut" /\ Running(p'[c]))
                => proc'[p'[c]].status = "running"]_vars

\* A child registered after the start call that spawned it had returned
\* TimedOut: the call was over before end_time + poll_interval_seconds, and
\* the descriptor carries that time or a later one.
C19_RegisteredAfterTimedOut ==
    \E c \in Coordinators :
        /\ pc[c] = "done" /\ result[c].kind = "TimedOut"
        /\ Running(result[c].pid) /\ spc[result[c].pid] = "registered"
        /\ files[info_file_path(result[c].pid)] = Payload(result[c].pid)
        /\ proc[result[c].pid].start_time * TicksPerSecond
             >= end_time[c] + poll_interval_seconds

\* C20: poll ordering.  When the sleep of a poll iteration is over and the
\* child has exited, start returns Failed with its exit code in that step,
\* whatever the registry holds; the registry is scanned only after the child
\* was seen running, and Launched is returned only by such a scan.
C20_ExitCheckBeforeScan ==
    [][\A c \in Coordinators :
          /\ (pc[c] = "sleep" /\ pc'[c] # "sleep"
              /\ proc[p[c]].status = "dead")
             => result'[c] = StartFailed(proc[p[c]].returncode, out[c].stdout,
                                         out[c].stderr)
          /\ (stage'[c] = "poll" /\ stage[c] # "poll") => Running(p[c])
          /\ (result'[c].kind = "Launched" /\ result[c].kind # "Launched")
             => stage[c] = "poll"]_vars

\* Failed was returned for a child that had published a descriptor with its
\* pid and a start time not before the spawn, which is in the registry.
C20_FailedDespiteDescriptor ==
    \E c \in Coordinators :
        /\ pc[c] = "done" /\ result[c].kind = "Failed"
        /\ proc[p[c]].wrote
        /\ info_file_path(p[c]) \in DOMAIN files
        /\ Decodes(files[info_file_path(p[c])])
        /\ Qualifies(json_loads(files[info_file_path(p[c])]), p[c],
                     start_time[c])

\* The scan of a poll is at its last file, and the list it is about to
\* return holds the descriptor the running child of c has published.
ChildScanned(c) ==
    /\ stage[c] = "poll" /\ pc[c] = "read"
    /\ p[c] # NoPid
    /\ Running(p[c]) /\ spc[p[c]] = "registered"
    /\ \/ \E i \in DOMAIN infos[c] : infos[c][i] = json_loads(Payload(p[c]))
       \/ /\ todo[c] = {info_file_path(p[c])}
          /\ info_file_path(p[c]) \in DOMAIN files
          /\ files[info_file_path(p[c])] = Payload(p[c])

\* C21: fresh descriptors pass the start-time guard.  When a poll before the
\* deadline has found the child running and its scan returns a list holding
\* the descriptor the child published after the spawn, whose start_time is
\* the publication time in whole seconds, start returns Launched with that
\* descriptor, also when the child published in the second of the spawn.
C21_FreshDescriptorLaunched ==
    [][\A c \in Coordinators :
          (/\ ChildScanned(c)
           /\ now < end_time[c]
           /\ pc'[c] \notin {"read", "raised"})
          => result'[c] = StartLaunched(json_loads(Payload(p[c])))]_vars

\* A poll before the deadline is about to return from its scan with the
\* descriptor its running child published in the second of the spawn, the
\* spawn having fallen inside that second.
C21_SameSecondScanned ==
    \E c \in Coordinators :
        /\ ChildScanned(c)
        /\ now < end_time[c]
        /\ proc[p[c]].start_time = start_time[c] \div TicksPerSecond
        /\ proc[p[c]].start_time * TicksPerSecond < start_time[c]

====
